---- MODULE Spec2Model ----
(***************************************************************************)
(* FlappyBirdEnv (src/flappy_bird_gymnasium/envs/flappy_bird_env.py): the  *)
(* gymnasium environment wrapping the Flappy Bird simulation engine.       *)
(*                                                                         *)
(* The wrapper (__init__, _normalize_state, step, reset, set_color,        *)
(* render, close) is translated from the source.  The engine it imports    *)
(* (game_logic.FlappyBirdLogic, its lidar, constants.LIDAR_MAX_DISTANCE)   *)
(* and the renderer (renderer.FlappyBirdRenderer) are not among the source *)
(* files; they are modelled from the design document (spec.md 3, 4, 6, 7)  *)
(* on a small integer playfield.                                           *)
(*                                                                         *)
(* Numbers: distances and observations are exact rationals [n, d];         *)
(* rewards are kept in tenths (-10, 10, 1 for -1.0, +1.0, +0.1).           *)
(***************************************************************************)
EXTENDS Integers, Sequences, FiniteSets

VARIABLES
    env,        \* the FlappyBirdEnv instance: its attributes
    ret,        \* what the last call on env gave back (or that it raised)
    reported,   \* history: a step() of the current episode reported terminated
    lastScore,  \* history: the last info["score"] given out in the current episode
    quits,      \* history: number of pygame.display.quit() calls made by close()
    env2,       \* a second, independent FlappyBirdEnv instance
    ret2        \* what the last call on env2 gave back

vars == <<env, ret, reported, lastScore, quits, env2, ret2>>

\* ------------------------------------------------------------ bounds

\* The random generator's number of states.
RngMod == 4
\* Largest seed a caller passes to reset(seed=...).
MaxSeed == 2
\* Ticks explored per episode.
MaxTicks == 11

\* ------------------------------------------------------------ values

None == [tag |-> "None"]

NOOP == 0
FLAP == 1
Actions == {NOOP, FLAP}

Seeds == 0..MaxSeed
Entropy == 0..(RngMod - 1)

Min(a, b) == IF a < b THEN a ELSE b
Abs(a) == IF a < 0 THEN -a ELSE a

\* The element of a one-element set.
The(S) == CHOOSE x \in S : TRUE

RECURSIVE Gcd(_, _)
Gcd(a, b) == IF b = 0 THEN a ELSE Gcd(b, a % b)

\* Exact rationals stand for the float64 values of the observation vector.
Rat(n, d) ==
    LET s == IF d < 0 THEN -1 ELSE 1
        g == Gcd(Abs(n), Abs(d))
    IN  [n |-> (s * n) \div g, d |-> (s * d) \div g]
RatInt(k) == [n |-> k, d |-> 1]
RatMul(a, b) == Rat(a.n * b.n, a.d * b.d)
RatDiv(a, b) == Rat(a.n * b.d, a.d * b.n)
RatSub(a, b) == Rat(a.n * b.d - b.n * a.d, a.d * b.d)
RatLeq(a, b) == a.n * b.d <= b.n * a.d

\* ------------------------------------------------------------ engine constants

\* Range of one lidar ray, the value a ray that hits nothing reports.
LIDAR_MAX_DISTANCE == 5
\* Downward acceleration per tick, terminal velocity, velocity set by a flap.
PLAYER_ACC_Y == 1
PLAYER_MAX_VEL_Y == 1
PLAYER_FLAP_ACC == -1
PLAYER_WIDTH == 1
PLAYER_HEIGHT == 1
\* Leftward scroll per tick, width of a pipe, distance between two pairs.
PIPE_VEL_X == -1
PIPE_WIDTH == 1
PIPE_SPACING == 4
\* Least distance kept between a gap and the ceiling or the ground.
GAP_MARGIN == 1
\* Height of the ground strip at the bottom of the screen.
BASE_HEIGHT == 1

\* The fan of rays: a forward semicircle, 45 degrees apart, from up to down.
LidarRays == << <<0, -1>>, <<1, -1>>, <<1, 0>>, <<1, 1>>, <<0, 1>> >>

\* ------------------------------------------------------------ random source

\* np_random as the engine consumes it: one draw of an integer in low..high
\* advances the generator's state, and the state fixes the value drawn.
RandInt(rng, low, high) ==
    LET s == (rng + 1) % RngMod
    IN  [value |-> low + (s % (high - low + 1)), rng |-> s]

\* gymnasium's seeding.np_random(seed): a generator whose state the seed fixes.
SeedRng(seed) == seed % RngMod

\* ------------------------------------------------------------ engine (FlappyBirdLogic)

\* Configuration the engine accepts: positive screen dimensions and a gap that
\* fits between ceiling and ground with the margin on both sides.
ValidConfig(screen_size, pipe_gap_size) ==
    /\ screen_size[1] > 0
    /\ screen_size[2] > 0
    /\ pipe_gap_size > 0
    /\ pipe_gap_size + 2 * GAP_MARGIN <= screen_size[2] - BASE_HEIGHT

\* Rotation follows the velocity; it is cosmetic.
PlayerRot(vel) == IF vel < 0 THEN 45 ELSE IF vel = 0 THEN 0 ELSE -45

\* One obstacle pair spawned at horizontal position x: its upper and lower
\* rectangle, the gap's top edge drawn from the random source.  "passed" counts
\* the score increments the pair has given.
NewPipe(rng, x, ground_y, gap) ==
    LET draw == RandInt(rng, GAP_MARGIN, ground_y - gap - GAP_MARGIN)
    IN  [upper |-> [x |-> x, y |-> draw.value, passed |-> 0],
         lower |-> [x |-> x, y |-> draw.value + gap],
         rng |-> draw.rng]

\* FlappyBirdLogic(np_random, screen_size, pipe_gap_size): a fresh game, or a
\* configuration error.  id is the identity of the new object.
FlappyBirdLogic(np_random, screen_size, pipe_gap_size, id) ==
    IF ~ValidConfig(screen_size, pipe_gap_size)
    THEN [ok |-> FALSE, game |-> None, rng |-> np_random]
    ELSE LET ground_y == screen_size[2] - BASE_HEIGHT
             pipe == NewPipe(np_random, screen_size[1], ground_y, pipe_gap_size)
         IN  [ok |-> TRUE,
              rng |-> pipe.rng,
              game |-> [tag |-> "game",
                        id |-> id,
                        screen_width |-> screen_size[1],
                        screen_height |-> screen_size[2],
                        pipe_gap |-> pipe_gap_size,
                        ground |-> [y |-> ground_y],
                        player_x |-> screen_size[1] \div 4,
                        player_y |-> screen_size[2] \div 3,
                        player_vel_y |-> 0,
                        player_rot |-> PlayerRot(0),
                        upper_pipes |-> <<pipe.upper>>,
                        lower_pipes |-> <<pipe.lower>>,
                        score |-> 0,
                        alive |-> TRUE,
                        ticks |-> 0]]

\* nearest_pair_ahead: index of the first pair whose right edge is not behind
\* the player, 0 when there is none.
NearestPairAhead(player_x, upper_pipes) ==
    LET ahead == {i \in DOMAIN upper_pipes : upper_pipes[i].x + PIPE_WIDTH >= player_x}
    IN  IF ahead = {} THEN 0 ELSE CHOOSE i \in ahead : \A j \in ahead : i <= j

\* Whether the point (x, y) lies on the ground or in a rectangle of pair i.
RayHit(x, y, i, upper_pipes, lower_pipes, ground) ==
    \/ y >= ground.y
    \/ /\ i # 0
       /\ upper_pipes[i].x <= x
       /\ x <= upper_pipes[i].x + PIPE_WIDTH
       /\ \/ y <= upper_pipes[i].y
          \/ y >= lower_pipes[i].y

\* One ray: the least positive distance at which it hits, capped at the range.
RayDistance(player_x, player_y, dir, i, upper_pipes, lower_pipes, ground) ==
    LET hits == {k \in 1..LIDAR_MAX_DISTANCE :
                    RayHit(player_x + k * dir[1], player_y + k * dir[2],
                           i, upper_pipes, lower_pipes, ground)}
    IN  IF hits = {} THEN LIDAR_MAX_DISTANCE
        ELSE CHOOSE k \in hits : \A j \in hits : k <= j

\* lidar.scan: the raw reading, one distance per ray.
scan(player_x, player_y, player_rot, upper_pipes, lower_pipes, ground) ==
    LET i == NearestPairAhead(player_x, upper_pipes)
    IN  [r \in DOMAIN LidarRays |->
            RatInt(RayDistance(player_x, player_y, LidarRays[r], i,
                               upper_pipes, lower_pipes, ground))]

\* CollisionDetector.check: closed intervals, touching counts.
check_crash(player_x, player_y, upper_pipes, lower_pipes, ground) ==
    \/ player_y + PLAYER_HEIGHT >= ground.y
    \/ player_y <= 0
    \/ \E i \in DOMAIN upper_pipes :
          /\ player_x <= upper_pipes[i].x + PIPE_WIDTH
          /\ upper_pipes[i].x <= player_x + PLAYER_WIDTH
          /\ \/ player_y <= upper_pipes[i].y
             \/ player_y + PLAYER_HEIGHT >= lower_pipes[i].y

\* The pass event of pair p on a tick: the pair's position crosses the player's.
Crosses(p, player_x) == p.x > player_x /\ p.x + PIPE_VEL_X <= player_x

\* update_state(action): one tick.  A dead game refuses the tick (ok = FALSE).
update_state(game, action, np_random) ==
    IF ~game.alive
    THEN [ok |-> FALSE, game |-> game, rng |-> np_random,
          obs |-> <<>>, reward |-> 0, alive |-> FALSE]
    ELSE LET vel == IF action = FLAP THEN PLAYER_FLAP_ACC
                    ELSE Min(game.player_vel_y + PLAYER_ACC_Y, PLAYER_MAX_VEL_Y)
             y == game.player_y + vel
             n == Len(game.upper_pipes)
             passes == {i \in 1..n : Crosses(game.upper_pipes[i], game.player_x)}
             up1 == [i \in 1..n |->
                        [game.upper_pipes[i] EXCEPT
                            !.x = @ + PIPE_VEL_X,
                            !.passed = IF i \in passes THEN @ + 1 ELSE @]]
             low1 == [i \in 1..n |->
                        [game.lower_pipes[i] EXCEPT !.x = @ + PIPE_VEL_X]]
             spawn == n = 0 \/ up1[n].x <= game.screen_width - PIPE_SPACING
             pipe == NewPipe(np_random, game.screen_width, game.ground.y, game.pipe_gap)
             up2 == IF spawn THEN Append(up1, pipe.upper) ELSE up1
             low2 == IF spawn THEN Append(low1, pipe.lower) ELSE low1
             OnScreen(p) == p.x + PIPE_WIDTH >= 0
             score == game.score + (IF passes # {} THEN 1 ELSE 0)
             moved == [game EXCEPT
                          !.player_y = y,
                          !.player_vel_y = vel,
                          !.player_rot = PlayerRot(vel),
                          !.upper_pipes = SelectSeq(up2, OnScreen),
                          !.lower_pipes = SelectSeq(low2, OnScreen),
                          !.score = score,
                          !.ticks = @ + 1]
             Outcome(g, crashed) ==
                 [ok |-> TRUE,
                  game |-> [g EXCEPT !.alive = ~crashed],
                  rng |-> IF spawn THEN pipe.rng ELSE np_random,
                  obs |-> scan(g.player_x, g.player_y, g.player_rot,
                               g.upper_pipes, g.lower_pipes, g.ground),
                  reward |-> IF crashed THEN -10 ELSE IF passes # {} THEN 10 ELSE 1,
                  alive |-> ~crashed]
         IN  The({Outcome(g, check_crash(g.player_x, g.player_y, g.upper_pipes,
                                         g.lower_pipes, g.ground)) : g \in {moved}})

\* ------------------------------------------------------------ renderer (FlappyBirdRenderer)

\* FlappyBirdRenderer(screen_size, audio_on, bird_color, pipe_color, background):
\* no game attached, nothing drawn, no display window.
FlappyBirdRenderer(screen_size, audio_on, bird_color, pipe_color, background) ==
    [tag |-> "renderer",
     game |-> 0,
     surface |-> "blank",
     display |-> "None",
     screen_size |-> screen_size,
     audio_on |-> audio_on,
     bird_color |-> bird_color,
     pipe_color |-> pipe_color,
     background |-> background]

\* draw_surface(show_score): draws the attached game; reads it, never writes it.
\* Without a game attached there is nothing to read and the call raises.
draw_surface(renderer, game) ==
    IF renderer.game = 0 \/ game = None
    THEN [raised |-> TRUE, renderer |-> renderer]
    ELSE [raised |-> FALSE, renderer |-> [renderer EXCEPT !.surface = "drawn"]]

\* make_display(): opens the window.
make_display(renderer) == [renderer EXCEPT !.display = "window"]

\* set_color(color): recolours the bird sprite.
renderer_set_color(renderer, color) == [renderer EXCEPT !.bird_color = color]

\* ------------------------------------------------------------ FlappyBirdEnv

NoSeed == -1
NoRng == -1
RenderModes == {"human", "rgb_array"}

\* What a call gave back: the returned values, or that it raised.
Raised(call) ==
    [call |-> call, raised |-> TRUE, obs |-> <<>>, reward |-> 0,
     terminated |-> FALSE, truncated |-> FALSE, info |-> None]
Returned(call, obs, reward, terminated, truncated, info) ==
    [call |-> call, raised |-> FALSE, obs |-> obs, reward |-> reward,
     terminated |-> terminated, truncated |-> truncated, info |-> info]
Plain(call) == Returned(call, <<>>, 0, FALSE, FALSE, None)

\* __init__: stores the configuration unchecked; only render_mode is asserted.
\* None stands for the construction that raised.
__init__(screen_size, audio_on, normalize_obs, pipe_gap, bird_color, pipe_color, render_mode, background) ==
    IF ~(render_mode = "None" \/ render_mode \in RenderModes)
    THEN None
    ELSE [_screen_size |-> screen_size,
          _normalize_obs |-> normalize_obs,
          _pipe_gap |-> pipe_gap,
          _audio_on |-> audio_on,
          _game |-> None,
          _renderer |-> IF render_mode # "None"
                        THEN FlappyBirdRenderer(screen_size, audio_on, bird_color,
                                                pipe_color, background)
                        ELSE None,
          _bird_color |-> bird_color,
          _pipe_color |-> pipe_color,
          _bg_type |-> background,
          render_mode |-> render_mode,
          np_random |-> NoRng]

\* _normalize_state without the shift: (state * 2) / LIDAR_MAX_DISTANCE.
_normalize_state_unshifted(state) ==
    [i \in DOMAIN state |->
        RatDiv(RatMul(state[i], RatInt(2)), RatInt(LIDAR_MAX_DISTANCE))]

\* _normalize_state: ((state * 2) / LIDAR_MAX_DISTANCE) - 1, elementwise.
_normalize_state(state) ==
    [i \in DOMAIN state |->
        RatSub(RatDiv(RatMul(state[i], RatInt(2)), RatInt(LIDAR_MAX_DISTANCE)),
               RatInt(1))]

\* render that writes the rotation it shows (capped at 20 degrees) back to the game.
render_clamping_rot(e) ==
    IF e._renderer = None
    THEN [env |-> e, ret |-> Raised("render")]
    ELSE LET d == draw_surface(e._renderer, e._game)
         IN  IF d.raised
             THEN [env |-> e, ret |-> Raised("render")]
             ELSE IF e.render_mode = "rgb_array"
             THEN [env |-> [e EXCEPT !._renderer = d.renderer,
                                !._game.player_rot = Min(@, 20)],
                   ret |-> Plain("render")]
             ELSE [env |-> [e EXCEPT !._renderer =
                                IF d.renderer.display = "None"
                                THEN make_display(d.renderer) ELSE d.renderer,
                                !._game.player_rot = Min(@, 20)],
                   ret |-> Plain("render")]

\* render(): draws the frame; "rgb_array" returns the pixels, otherwise the
\* window is opened on first use and refreshed.
render(e) ==
    IF e._renderer = None
    THEN [env |-> e, ret |-> Raised("render")]
    ELSE LET d == draw_surface(e._renderer, e._game)
         IN  IF d.raised
             THEN [env |-> e, ret |-> Raised("render")]
             ELSE IF e.render_mode = "rgb_array"
             THEN [env |-> [e EXCEPT !._renderer = d.renderer],
                   ret |-> Plain("render")]
             ELSE [env |-> [e EXCEPT !._renderer =
                                IF d.renderer.display = "None"
                                THEN make_display(d.renderer) ELSE d.renderer],
                   ret |-> Plain("render")]

\* step with the status flag not negated: done = alive.
step_done_is_alive(e, action) ==
    IF e._game = None
    THEN [env |-> e, ret |-> Raised("step")]
    ELSE LET Rest(t) ==
                 IF ~t.ok
                 THEN [env |-> e, ret |-> Raised("step")]
                 ELSE LET e1 == [e EXCEPT !._game = t.game, !.np_random = t.rng]
                          obs == IF e._normalize_obs THEN _normalize_state(t.obs) ELSE t.obs
                          done == t.alive
                          info == [score |-> t.game.score]
                          r == IF e.render_mode = "human" THEN render(e1)
                               ELSE [env |-> e1, ret |-> Plain("render")]
                      IN  IF r.ret.raised
                          THEN [env |-> r.env, ret |-> Raised("step")]
                          ELSE [env |-> r.env,
                                ret |-> Returned("step", obs, t.reward, done, FALSE, info)]
         IN  The({Rest(t) : t \in {update_state(e._game, action, e.np_random)}})

\* step with the reward the class docstring describes: the score obtained in the step.
step_reward_is_score(e, action) ==
    IF e._game = None
    THEN [env |-> e, ret |-> Raised("step")]
    ELSE LET Rest(t) ==
                 IF ~t.ok
                 THEN [env |-> e, ret |-> Raised("step")]
                 ELSE LET e1 == [e EXCEPT !._game = t.game, !.np_random = t.rng]
                          obs == IF e._normalize_obs THEN _normalize_state(t.obs) ELSE t.obs
                          done == ~t.alive
                          info == [score |-> t.game.score]
                          r == IF e.render_mode = "human" THEN render(e1)
                               ELSE [env |-> e1, ret |-> Plain("render")]
                      IN  IF r.ret.raised
                          THEN [env |-> r.env, ret |-> Raised("step")]
                          ELSE [env |-> r.env,
                                ret |-> Returned("step", obs, 10 * (t.game.score - e._game.score), done, FALSE, info)]
         IN  The({Rest(t) : t \in {update_state(e._game, action, e.np_random)}})

\* step with info built before the tick: the score of the previous tick.
step_stale_info(e, action) ==
    IF e._game = None
    THEN [env |-> e, ret |-> Raised("step")]
    ELSE LET Rest(t) ==
                 IF ~t.ok
                 THEN [env |-> e, ret |-> Raised("step")]
                 ELSE LET e1 == [e EXCEPT !._game = t.game, !.np_random = t.rng]
                          obs == IF e._normalize_obs THEN _normalize_state(t.obs) ELSE t.obs
                          done == ~t.alive
                          info == [score |-> e._game.score]
                          r == IF e.render_mode = "human" THEN render(e1)
                               ELSE [env |-> e1, ret |-> Plain("render")]
                      IN  IF r.ret.raised
                          THEN [env |-> r.env, ret |-> Raised("step")]
                          ELSE [env |-> r.env,
                                ret |-> Returned("step", obs, t.reward, done, FALSE, info)]
         IN  The({Rest(t) : t \in {update_state(e._game, action, e.np_random)}})

\* step that swallows the engine's refusal and reports a terminated tick.
step_swallowing(e, action) ==
    IF e._game = None
    THEN [env |-> e, ret |-> Raised("step")]
    ELSE LET Rest(t) ==
                 IF ~t.ok
                 THEN [env |-> e,
                       ret |-> Returned("step", t.obs, -10, TRUE, FALSE,
                                        [score |-> e._game.score])]
                 ELSE LET e1 == [e EXCEPT !._game = t.game, !.np_random = t.rng]
                          obs == IF e._normalize_obs THEN _normalize_state(t.obs) ELSE t.obs
                          done == ~t.alive
                          info == [score |-> t.game.score]
                          r == IF e.render_mode = "human" THEN render(e1)
                               ELSE [env |-> e1, ret |-> Plain("render")]
                      IN  IF r.ret.raised
                          THEN [env |-> r.env, ret |-> Raised("step")]
                          ELSE [env |-> r.env,
                                ret |-> Returned("step", obs, t.reward, done, FALSE, info)]
         IN  The({Rest(t) : t \in {update_state(e._game, action, e.np_random)}})

\* step that coerces the action the wrong way round: 0 flaps, 1 does nothing.
step_action_inverted(e, action) ==
    IF e._game = None
    THEN [env |-> e, ret |-> Raised("step")]
    ELSE LET Rest(t) ==
                 IF ~t.ok
                 THEN [env |-> e, ret |-> Raised("step")]
                 ELSE LET e1 == [e EXCEPT !._game = t.game, !.np_random = t.rng]
                          obs == IF e._normalize_obs THEN _normalize_state(t.obs) ELSE t.obs
                          done == ~t.alive
                          info == [score |-> t.game.score]
                          r == IF e.render_mode = "human" THEN render(e1)
                               ELSE [env |-> e1, ret |-> Plain("render")]
                      IN  IF r.ret.raised
                          THEN [env |-> r.env, ret |-> Raised("step")]
                          ELSE [env |-> r.env,
                                ret |-> Returned("step", obs, t.reward, done, FALSE, info)]
         IN  The({Rest(t) : t \in {update_state(e._game, 1 - action, e.np_random)}})

\* step that reports the end of the episode as a truncation too.
step_truncating(e, action) ==
    IF e._game = None
    THEN [env |-> e, ret |-> Raised("step")]
    ELSE LET Rest(t) ==
                 IF ~t.ok
                 THEN [env |-> e, ret |-> Raised("step")]
                 ELSE LET e1 == [e EXCEPT !._game = t.game, !.np_random = t.rng]
                          obs == IF e._normalize_obs THEN _normalize_state(t.obs) ELSE t.obs
                          done == ~t.alive
                          info == [score |-> t.game.score]
                          r == IF e.render_mode = "human" THEN render(e1)
                               ELSE [env |-> e1, ret |-> Plain("render")]
                      IN  IF r.ret.raised
                          THEN [env |-> r.env, ret |-> Raised("step")]
                          ELSE [env |-> r.env,
                                ret |-> Returned("step", obs, t.reward, done, done, info)]
         IN  The({Rest(t) : t \in {update_state(e._game, action, e.np_random)}})

\* step that answers with an empty observation when there is no game.
step_without_game(e, action) ==
    IF e._game = None
    THEN [env |-> e, ret |-> Returned("step", <<>>, 0, FALSE, FALSE, [score |-> 0])]
    ELSE LET Rest(t) ==
                 IF ~t.ok
                 THEN [env |-> e, ret |-> Raised("step")]
                 ELSE LET e1 == [e EXCEPT !._game = t.game, !.np_random = t.rng]
                          obs == IF e._normalize_obs THEN _normalize_state(t.obs) ELSE t.obs
                          done == ~t.alive
                          info == [score |-> t.game.score]
                          r == IF e.render_mode = "human" THEN render(e1)
                               ELSE [env |-> e1, ret |-> Plain("render")]
                      IN  IF r.ret.raised
                          THEN [env |-> r.env, ret |-> Raised("step")]
                          ELSE [env |-> r.env,
                                ret |-> Returned("step", obs, t.reward, done, FALSE, info)]
         IN  The({Rest(t) : t \in {update_state(e._game, action, e.np_random)}})

\* step(action): one tick of the game, the observation normalized on request.
step(e, action) ==
    IF e._game = None
    THEN [env |-> e, ret |-> Raised("step")]
    ELSE LET Rest(t) ==
                 IF ~t.ok
                 THEN [env |-> e, ret |-> Raised("step")]
                 ELSE LET e1 == [e EXCEPT !._game = t.game, !.np_random = t.rng]
                          obs == IF e._normalize_obs THEN _normalize_state(t.obs) ELSE t.obs
                          done == ~t.alive
                          info == [score |-> t.game.score]
                          r == IF e.render_mode = "human" THEN render(e1)
                               ELSE [env |-> e1, ret |-> Plain("render")]
                      IN  IF r.ret.raised
                          THEN [env |-> r.env, ret |-> Raised("step")]
                          ELSE [env |-> r.env,
                                ret |-> Returned("step", obs, t.reward, done, FALSE, info)]
         IN  The({Rest(t) : t \in {update_state(e._game, action, e.np_random)}})

\* The identity of a newly allocated game: not that of any object still referenced.
NewId(e) ==
    LET live == (IF e._game = None THEN {} ELSE {e._game.id})
                \cup (IF e._renderer = None THEN {} ELSE {e._renderer.game})
    IN  CHOOSE i \in 1..3 : i \notin live /\ \A j \in 1..3 : j \notin live => i <= j

\* reset that drops the seed: super().reset() called without it.
reset_unseeded(e, seed, entropy) ==
    LET rng == IF e.np_random = NoRng THEN entropy ELSE e.np_random
        Rest(c) ==
            IF ~c.ok
            THEN [env |-> [e EXCEPT !.np_random = rng], ret |-> Raised("reset")]
            ELSE LET g == c.game
                     e1 == [e EXCEPT !.np_random = c.rng, !._game = g]
                     e2 == IF e1._renderer # None
                           THEN [e1 EXCEPT !._renderer.game = g.id] ELSE e1
                     r == IF e.render_mode = "human" THEN render(e2)
                          ELSE [env |-> e2, ret |-> Plain("render")]
                     raw == scan(g.player_x, g.player_y, g.player_rot,
                                 g.upper_pipes, g.lower_pipes, g.ground)
                     obs == IF e._normalize_obs THEN _normalize_state(raw) ELSE raw
                     info == [score |-> g.score]
                 IN  IF r.ret.raised
                     THEN [env |-> r.env, ret |-> Raised("reset")]
                     ELSE [env |-> r.env,
                           ret |-> Returned("reset", obs, 0, FALSE, FALSE, info)]
    IN  The({Rest(c) : c \in {FlappyBirdLogic(rng, e._screen_size, e._pipe_gap, NewId(e))}})

\* reset that lets an environment with a renderer draw from np_random (a random
\* sprite choice) before the game is built.
reset_cosmetic_draw(e, seed, entropy) ==
    LET rng == IF seed # NoSeed THEN SeedRng(seed)
               ELSE IF e.np_random = NoRng THEN entropy ELSE e.np_random
        Rest(c) ==
            IF ~c.ok
            THEN [env |-> [e EXCEPT !.np_random = rng], ret |-> Raised("reset")]
            ELSE LET g == c.game
                     e1 == [e EXCEPT !.np_random = c.rng, !._game = g]
                     e2 == IF e1._renderer # None
                           THEN [e1 EXCEPT !._renderer.game = g.id] ELSE e1
                     r == IF e.render_mode = "human" THEN render(e2)
                          ELSE [env |-> e2, ret |-> Plain("render")]
                     raw == scan(g.player_x, g.player_y, g.player_rot,
                                 g.upper_pipes, g.lower_pipes, g.ground)
                     obs == IF e._normalize_obs THEN _normalize_state(raw) ELSE raw
                     info == [score |-> g.score]
                 IN  IF r.ret.raised
                     THEN [env |-> r.env, ret |-> Raised("reset")]
                     ELSE [env |-> r.env,
                           ret |-> Returned("reset", obs, 0, FALSE, FALSE, info)]
    IN  The({Rest(c) : c \in {FlappyBirdLogic(IF e._renderer # None THEN RandInt(rng, 0, 1).rng ELSE rng, e._screen_size, e._pipe_gap, NewId(e))}})

\* reset that falls back to the accepted playfield when the stored configuration
\* is one the engine rejects, instead of letting the error out.
reset_defaulting(e, seed, entropy) ==
    LET rng == IF seed # NoSeed THEN SeedRng(seed)
               ELSE IF e.np_random = NoRng THEN entropy ELSE e.np_random
        Rest(c) ==
            IF ~c.ok
            THEN [env |-> [e EXCEPT !.np_random = rng], ret |-> Raised("reset")]
            ELSE LET g == c.game
                     e1 == [e EXCEPT !.np_random = c.rng, !._game = g]
                     e2 == IF e1._renderer # None
                           THEN [e1 EXCEPT !._renderer.game = g.id] ELSE e1
                     r == IF e.render_mode = "human" THEN render(e2)
                          ELSE [env |-> e2, ret |-> Plain("render")]
                     raw == scan(g.player_x, g.player_y, g.player_rot,
                                 g.upper_pipes, g.lower_pipes, g.ground)
                     obs == IF e._normalize_obs THEN _normalize_state(raw) ELSE raw
                     info == [score |-> g.score]
                 IN  IF r.ret.raised
                     THEN [env |-> r.env, ret |-> Raised("reset")]
                     ELSE [env |-> r.env,
                           ret |-> Returned("reset", obs, 0, FALSE, FALSE, info)]
    IN  The({Rest(c) : c \in {IF ValidConfig(e._screen_size, e._pipe_gap)
               THEN FlappyBirdLogic(rng, e._screen_size, e._pipe_gap, NewId(e))
               ELSE FlappyBirdLogic(rng, <<8, 9>>, 4, NewId(e))}})

\* reset that builds a game only when there is none yet and otherwise keeps the
\* current one.
reset_reuse(e, seed, entropy) ==
    LET rng == IF seed # NoSeed THEN SeedRng(seed)
               ELSE IF e.np_random = NoRng THEN entropy ELSE e.np_random
        Rest(c) ==
            IF ~c.ok
            THEN [env |-> [e EXCEPT !.np_random = rng], ret |-> Raised("reset")]
            ELSE LET g == c.game
                     e1 == [e EXCEPT !.np_random = c.rng, !._game = g]
                     e2 == IF e1._renderer # None
                           THEN [e1 EXCEPT !._renderer.game = g.id] ELSE e1
                     r == IF e.render_mode = "human" THEN render(e2)
                          ELSE [env |-> e2, ret |-> Plain("render")]
                     raw == scan(g.player_x, g.player_y, g.player_rot,
                                 g.upper_pipes, g.lower_pipes, g.ground)
                     obs == IF e._normalize_obs THEN _normalize_state(raw) ELSE raw
                     info == [score |-> g.score]
                 IN  IF r.ret.raised
                     THEN [env |-> r.env, ret |-> Raised("reset")]
                     ELSE [env |-> r.env,
                           ret |-> Returned("reset", obs, 0, FALSE, FALSE, info)]
    IN  The({Rest(c) : c \in {IF e._game = None
               THEN FlappyBirdLogic(rng, e._screen_size, e._pipe_gap, NewId(e))
               ELSE [ok |-> TRUE, game |-> e._game, rng |-> rng]}})

\* reset that returns the raw reading whatever normalize_obs says.
reset_raw(e, seed, entropy) ==
    LET rng == IF seed # NoSeed THEN SeedRng(seed)
               ELSE IF e.np_random = NoRng THEN entropy ELSE e.np_random
        Rest(c) ==
            IF ~c.ok
            THEN [env |-> [e EXCEPT !.np_random = rng], ret |-> Raised("reset")]
            ELSE LET g == c.game
                     e1 == [e EXCEPT !.np_random = c.rng, !._game = g]
                     e2 == IF e1._renderer # None
                           THEN [e1 EXCEPT !._renderer.game = g.id] ELSE e1
                     r == IF e.render_mode = "human" THEN render(e2)
                          ELSE [env |-> e2, ret |-> Plain("render")]
                     raw == scan(g.player_x, g.player_y, g.player_rot,
                                 g.upper_pipes, g.lower_pipes, g.ground)
                     obs == raw
                     info == [score |-> g.score]
                 IN  IF r.ret.raised
                     THEN [env |-> r.env, ret |-> Raised("reset")]
                     ELSE [env |-> r.env,
                           ret |-> Returned("reset", obs, 0, FALSE, FALSE, info)]
    IN  The({Rest(c) : c \in {FlappyBirdLogic(rng, e._screen_size, e._pipe_gap, NewId(e))}})

\* reset that hands the game to the renderer only when the renderer has none yet.
reset_attach_once(e, seed, entropy) ==
    LET rng == IF seed # NoSeed THEN SeedRng(seed)
               ELSE IF e.np_random = NoRng THEN entropy ELSE e.np_random
        Rest(c) ==
            IF ~c.ok
            THEN [env |-> [e EXCEPT !.np_random = rng], ret |-> Raised("reset")]
            ELSE LET g == c.game
                     e1 == [e EXCEPT !.np_random = c.rng, !._game = g]
                     e2 == IF e1._renderer # None /\ e1._renderer.game = 0
                           THEN [e1 EXCEPT !._renderer.game = g.id] ELSE e1
                     r == IF e.render_mode = "human" THEN render(e2)
                          ELSE [env |-> e2, ret |-> Plain("render")]
                     raw == scan(g.player_x, g.player_y, g.player_rot,
                                 g.upper_pipes, g.lower_pipes, g.ground)
                     obs == IF e._normalize_obs THEN _normalize_state(raw) ELSE raw
                     info == [score |-> g.score]
                 IN  IF r.ret.raised
                     THEN [env |-> r.env, ret |-> Raised("reset")]
                     ELSE [env |-> r.env,
                           ret |-> Returned("reset", obs, 0, FALSE, FALSE, info)]
    IN  The({Rest(c) : c \in {FlappyBirdLogic(rng, e._screen_size, e._pipe_gap, NewId(e))}})

\* reset that seeds the generator only when the instance has none yet.
reset_seed_once(e, seed, entropy) ==
    LET rng == IF seed # NoSeed /\ e.np_random = NoRng THEN SeedRng(seed)
               ELSE IF e.np_random = NoRng THEN entropy ELSE e.np_random
        Rest(c) ==
            IF ~c.ok
            THEN [env |-> [e EXCEPT !.np_random = rng], ret |-> Raised("reset")]
            ELSE LET g == c.game
                     e1 == [e EXCEPT !.np_random = c.rng, !._game = g]
                     e2 == IF e1._renderer # None
                           THEN [e1 EXCEPT !._renderer.game = g.id] ELSE e1
                     r == IF e.render_mode = "human" THEN render(e2)
                          ELSE [env |-> e2, ret |-> Plain("render")]
                     raw == scan(g.player_x, g.player_y, g.player_rot,
                                 g.upper_pipes, g.lower_pipes, g.ground)
                     obs == IF e._normalize_obs THEN _normalize_state(raw) ELSE raw
                     info == [score |-> g.score]
                 IN  IF r.ret.raised
                     THEN [env |-> r.env, ret |-> Raised("reset")]
                     ELSE [env |-> r.env,
                           ret |-> Returned("reset", obs, 0, FALSE, FALSE, info)]
    IN  The({Rest(c) : c \in {FlappyBirdLogic(rng, e._screen_size, e._pipe_gap, NewId(e))}})

\* reset(seed): seeds the generator when a seed is given (gymnasium's Env.reset;
\* an unseeded generator is created from OS entropy on first use), then starts a
\* new game and returns its first observation.
reset(e, seed, entropy) ==
    LET rng == IF seed # NoSeed THEN SeedRng(seed)
               ELSE IF e.np_random = NoRng THEN entropy ELSE e.np_random
        Rest(c) ==
            IF ~c.ok
            THEN [env |-> [e EXCEPT !.np_random = rng], ret |-> Raised("reset")]
            ELSE LET g == c.game
                     e1 == [e EXCEPT !.np_random = c.rng, !._game = g]
                     e2 == IF e1._renderer # None
                           THEN [e1 EXCEPT !._renderer.game = g.id] ELSE e1
                     r == IF e.render_mode = "human" THEN render(e2)
                          ELSE [env |-> e2, ret |-> Plain("render")]
                     raw == scan(g.player_x, g.player_y, g.player_rot,
                                 g.upper_pipes, g.lower_pipes, g.ground)
                     obs == IF e._normalize_obs THEN _normalize_state(raw) ELSE raw
                     info == [score |-> g.score]
                 IN  IF r.ret.raised
                     THEN [env |-> r.env, ret |-> Raised("reset")]
                     ELSE [env |-> r.env,
                           ret |-> Returned("reset", obs, 0, FALSE, FALSE, info)]
    IN  The({Rest(c) : c \in {FlappyBirdLogic(rng, e._screen_size, e._pipe_gap, NewId(e))}})

\* set_color(color): forwarded to the renderer when there is one.
set_color(e, color) ==
    IF e._renderer # None
    THEN [env |-> [e EXCEPT !._renderer = renderer_set_color(@, color)],
          ret |-> Plain("set_color")]
    ELSE [env |-> e, ret |-> Plain("set_color")]

\* close that shuts the display down whether or not there is a renderer.
close_unconditional(e) ==
    IF e._renderer # None
    THEN [env |-> [e EXCEPT !._renderer = None], ret |-> Plain("close"), quit |-> 1]
    ELSE [env |-> e, ret |-> Plain("close"), quit |-> 1]

\* close(): shuts the display down and drops the renderer, once.
close(e) ==
    IF e._renderer # None
    THEN [env |-> [e EXCEPT !._renderer = None], ret |-> Plain("close"), quit |-> 1]
    ELSE [env |-> e, ret |-> Plain("close"), quit |-> 0]

\* ------------------------------------------------------------ one environment

\* The configurations tried: the playfield the engine accepts and ones it rejects.
ScreenSizes == {<<8, 9>>, <<0, 9>>, <<8, 0>>}
PipeGaps == {4, 0, 8}
ModeArgs == {"None", "human", "rgb_array", "ansi"}
BirdColors == {"yellow", "blue"}

NoEnv == [tag |-> "unused"]

\* Everything about the current episode a tick can change.
Sim(e) == e._game

Init ==
    /\ \E screen_size \in ScreenSizes, pipe_gap \in PipeGaps,
          normalize_obs \in BOOLEAN, render_mode \in ModeArgs :
          /\ env = __init__(screen_size, FALSE, normalize_obs, pipe_gap,
                            "yellow", "green", render_mode, "day")
          /\ env # None
    /\ ret = Plain("__init__")
    /\ reported = FALSE
    /\ lastScore = -1
    /\ quits = 0
    /\ env2 = NoEnv
    /\ ret2 = Plain("unused")

\* What a call on env leaves of the episode's history.
History(r) ==
    /\ reported' = IF Sim(r.env) # None /\ Sim(r.env).id # (IF Sim(env) = None THEN 0 ELSE Sim(env).id)
                   THEN FALSE
                   ELSE reported \/ (r.ret.call = "step" /\ ~r.ret.raised /\ r.ret.terminated)
    /\ lastScore' = IF r.ret.call \in {"step", "reset"} /\ ~r.ret.raised
                    THEN r.ret.info.score
                    ELSE IF Sim(r.env) # Sim(env) THEN -1 ELSE lastScore

Reset(seed, entropy) ==
    \E r \in {reset(env, seed, entropy)} :
        /\ env' = r.env
        /\ ret' = r.ret
        /\ History(r)
        /\ UNCHANGED <<quits, env2, ret2>>

Step(action) ==
    \E r \in {step(env, action)} :
        /\ env._game # None => env._game.ticks < MaxTicks
        /\ env' = r.env
        /\ ret' = r.ret
        /\ History(r)
        /\ UNCHANGED <<quits, env2, ret2>>

Render ==
    \E r \in {render(env)} :
        /\ env' = r.env
        /\ ret' = r.ret
        /\ History(r)
        /\ UNCHANGED <<quits, env2, ret2>>

SetColor(color) ==
    \E r \in {set_color(env, color)} :
        /\ env' = r.env
        /\ ret' = r.ret
        /\ History(r)
        /\ UNCHANGED <<quits, env2, ret2>>

Close ==
    \E r \in {close(env)} :
        /\ env' = r.env
        /\ ret' = r.ret
        /\ History(r)
        /\ quits' = quits + r.quit
        /\ UNCHANGED <<env2, ret2>>

ResetAny ==
    \/ \E seed \in Seeds : Reset(seed, 0)
    \/ \E entropy \in (IF env.np_random = NoRng THEN Entropy ELSE {0}) : Reset(NoSeed, entropy)
StepAny == \E action \in Actions : Step(action)
SetColorAny == \E color \in BirdColors : SetColor(color)

Next == ResetAny \/ StepAny \/ Render \/ SetColorAny \/ Close

Spec == Init /\ [][Next]_vars

\* ------------------------------------------------------------ two environments

\* The second instance's cosmetic arguments <<audio_on, bird_color, pipe_color,
\* background>>: the defaults, each one changed alone, and all changed.
Cosmetics ==
    {<<FALSE, "yellow", "green", "day">>, <<TRUE, "yellow", "green", "day">>,
     <<FALSE, "blue", "green", "day">>, <<FALSE, "yellow", "red", "day">>,
     <<FALSE, "yellow", "green", "None">>, <<TRUE, "blue", "red", "None">>}

\* Two instances built from the same screen size, pipe gap and normalize_obs;
\* the second one's colours, background, audio and render mode are free.
PairInit ==
    /\ \E screen_size \in ScreenSizes, pipe_gap \in PipeGaps, normalize_obs \in BOOLEAN :
          /\ env = __init__(screen_size, FALSE, normalize_obs, pipe_gap,
                            "yellow", "green", "None", "day")
          /\ \E c \in Cosmetics, render_mode \in ModeArgs :
                /\ env2 = __init__(screen_size, c[1], normalize_obs, pipe_gap,
                                   c[2], c[3], render_mode, c[4])
                /\ env2 # None
    /\ ret = Plain("__init__")
    /\ ret2 = Plain("__init__")
    /\ reported = FALSE
    /\ lastScore = -1
    /\ quits = 0

\* Both instances are reset with the same seed; each has its own OS entropy.
PairReset(seed, entropy, entropy2) ==
    \E r \in {reset(env, seed, entropy)}, r2 \in {reset(env2, seed, entropy2)} :
        /\ env' = r.env
        /\ ret' = r.ret
        /\ env2' = r2.env
        /\ ret2' = r2.ret
        /\ UNCHANGED <<reported, lastScore, quits>>

\* Both instances are given the same action.
PairStep(action) ==
    \E r \in {step(env, action)}, r2 \in {step(env2, action)} :
        /\ env._game # None => env._game.ticks < MaxTicks
        /\ env2._game # None => env2._game.ticks < MaxTicks
        /\ env' = r.env
        /\ ret' = r.ret
        /\ env2' = r2.env
        /\ ret2' = r2.ret
        /\ UNCHANGED <<reported, lastScore, quits>>

PairResetAny == \E seed \in Seeds, entropy2 \in {0, RngMod - 1} : PairReset(seed, 0, entropy2)
PairStepAny == \E action \in Actions : PairStep(action)

PairNext == PairResetAny \/ PairStepAny

PairSpec == PairInit /\ [][PairNext]_vars

\* ------------------------------------------------------------ normalize_obs on and off

\* Two instances that differ in normalize_obs only: the first one normalizes.
NormInit ==
    /\ \E screen_size \in ScreenSizes, pipe_gap \in PipeGaps, render_mode \in RenderModes \cup {"None"} :
          /\ env = __init__(screen_size, FALSE, TRUE, pipe_gap,
                            "yellow", "green", render_mode, "day")
          /\ env2 = __init__(screen_size, FALSE, FALSE, pipe_gap,
                             "yellow", "green", render_mode, "day")
    /\ ret = Plain("__init__")
    /\ ret2 = Plain("__init__")
    /\ reported = FALSE
    /\ lastScore = -1
    /\ quits = 0

\* Both are reset with the same seed and the same OS entropy.
NormResetAny == \E seed \in Seeds \cup {NoSeed}, entropy \in {0, RngMod - 1} : PairReset(seed, entropy, entropy)

NormNext == NormResetAny \/ PairStepAny

NormSpec == NormInit /\ [][NormNext]_vars

\* ------------------------------------------------------------ an instance with a past

\* Two instances of one configuration; the second stays unused until the first
\* has played whatever episodes it played.
HistInit ==
    /\ \E screen_size \in ScreenSizes, pipe_gap \in PipeGaps, normalize_obs \in BOOLEAN :
          /\ env = __init__(screen_size, FALSE, normalize_obs, pipe_gap,
                            "yellow", "green", "None", "day")
          /\ env2 = env
    /\ ret = Plain("__init__")
    /\ ret2 = Plain("__init__")
    /\ reported = FALSE
    /\ lastScore = -1
    /\ quits = 0

\* The past of the first instance: resets, seeded or not, and ticks.
HistReset(seed, entropy) == env2._game = None /\ Reset(seed, entropy)
HistStep(action) == env2._game = None /\ Step(action)

\* From its first reset() on, the second instance is driven like the first.
HistPairStep(action) == env2._game # None /\ PairStep(action)

HistResetAny == \E seed \in Seeds \cup {NoSeed}, entropy \in {0, RngMod - 1} : HistReset(seed, entropy)
HistStepAny == \E action \in Actions : HistStep(action)
HistPairStepAny == \E action \in Actions : HistPairStep(action)

HistNext == HistResetAny \/ HistStepAny \/ PairResetAny \/ HistPairStepAny

HistSpec == HistInit /\ [][HistNext]_vars

\* ------------------------------------------------------------ scenario A: never flap

\* One episode: the first reset(), with a seed.
NoopReset(seed) == env._game = None /\ Reset(seed, 0)

\* Every tick of the episode is a NOOP.
NoopStep == env._game # None /\ Step(NOOP)

NoopResetAny == \E seed \in Seeds : NoopReset(seed)

NoopNext == NoopResetAny \/ NoopStep

\* The caller keeps ticking: a step() that can be made is made.
NoopSpec == Init /\ [][NoopNext]_vars /\ WF_vars(NoopStep)

\* ------------------------------------------------------------ claims

IsStep == ret'.call = "step"
Alive(e) == e._game # None /\ e._game.alive
Dead(e) == e._game # None /\ ~e._game.alive

\* C1  Terminal irreversibility: once a step() of the episode has reported
\* terminated, every later step() of that episode is refused (raises) or
\* reports terminated again.
C1_TerminalIrreversible ==
    [][(reported /\ IsStep) => (ret'.raised \/ ret'.terminated)]_vars

\* A step() made after the episode reported terminated, and refused.
C1_Witness == reported /\ ret.call = "step" /\ ret.raised

C3_ScoreMonotone ==
    /\ [][(IsStep /\ ~ret'.raised /\ lastScore >= 0) =>
            /\ ret'.info.score - lastScore \in {0, 1}
            /\ ret'.info.score - lastScore = 1 <=>
                  \E i \in DOMAIN env._game.upper_pipes :
                      Crosses(env._game.upper_pipes[i], env._game.player_x)]_vars
    /\ [](env._game # None =>
            \A i \in DOMAIN env._game.upper_pipes : env._game.upper_pipes[i].passed <= 1)

\* The second pair of an episode has been passed and the score reported is 2.
C3_Witness ==
    /\ ret.call = "step" /\ ~ret.raised /\ ret.info.score = 2 /\ lastScore = 2
    /\ \E i \in DOMAIN env._game.upper_pipes : env._game.upper_pipes[i].passed = 1

\* The raw sensor reading of the environment's game as it stands.
RawReading(e) ==
    scan(e._game.player_x, e._game.player_y, e._game.player_rot,
         e._game.upper_pipes, e._game.lower_pipes, e._game.ground)

\* C4  Determinism: two instances reset with the same seed and given the same
\* actions give back the same (reading, reward, terminated) at every call, the
\* reading of reset() included.
C4_Deterministic ==
    /\ ret.call = ret2.call
    /\ ret.raised = ret2.raised
    /\ ret.obs = ret2.obs
    /\ ret.reward = ret2.reward
    /\ ret.terminated = ret2.terminated

\* Both instances have ticked past the first spawn (a random draw made during
\* the episode) and returned a reading.
C4_Witness ==
    /\ ret.call = "step" /\ ~ret.raised /\ ~ret2.raised
    /\ Len(ret.obs) = Len(LidarRays)
    /\ Len(env._game.upper_pipes) >= 2
    /\ Len(env2._game.upper_pipes) >= 2

\* C5  Bounded observation: every raw distance is a whole number in
\* 0..LIDAR_MAX_DISTANCE, a ray that hits nothing reports LIDAR_MAX_DISTANCE,
\* and with normalize_obs every component returned by reset() and step() is
\* 2*d/LIDAR_MAX_DISTANCE - 1 for its raw distance d and lies in [-1, 1].
C5_BoundedObservation ==
    (ret.call \in {"step", "reset"} /\ ~ret.raised) =>
        LET raw == RawReading(env)
            g == env._game
            i == NearestPairAhead(g.player_x, g.upper_pipes)
        IN  /\ DOMAIN ret.obs = DOMAIN LidarRays
            /\ \A r \in DOMAIN LidarRays :
                  /\ raw[r].d = 1
                  /\ raw[r].n \in 0..LIDAR_MAX_DISTANCE
                  /\ (\A k \in 1..LIDAR_MAX_DISTANCE :
                         ~RayHit(g.player_x + k * LidarRays[r][1],
                                 g.player_y + k * LidarRays[r][2],
                                 i, g.upper_pipes, g.lower_pipes, g.ground))
                        => raw[r].n = LIDAR_MAX_DISTANCE
                  /\ ~env._normalize_obs => ret.obs[r] = raw[r]
                  /\ env._normalize_obs =>
                        /\ ret.obs[r].d > 0
                        /\ ret.obs[r].n * LIDAR_MAX_DISTANCE
                              = (2 * raw[r].n - LIDAR_MAX_DISTANCE) * ret.obs[r].d
                        /\ RatLeq(RatInt(-1), ret.obs[r])
                        /\ RatLeq(ret.obs[r], RatInt(1))

\* A normalized reading of step() with a ray at full range (+1) and a ray whose
\* value is a proper fraction below zero.
C5_Witness ==
    /\ ret.call = "step" /\ ~ret.raised /\ env._normalize_obs
    /\ \E r \in DOMAIN ret.obs : ret.obs[r] = RatInt(1)
    /\ \E r \in DOMAIN ret.obs : ret.obs[r].n < 0 /\ ret.obs[r].d = LIDAR_MAX_DISTANCE

\* C6  Misuse error: a step() on an episode that is DEAD raises, and leaves the
\* game (score, alive flag, geometry) and the random source as they were.
C6_MisuseRefused ==
    [][(IsStep /\ Dead(env)) =>
          /\ ret'.raised
          /\ env'._game = env._game
          /\ env'.np_random = env.np_random]_vars

\* A refused step() on an episode that ended with a score of 1.
C6_Witness ==
    /\ ret.call = "step" /\ ret.raised
    /\ Dead(env) /\ env._game.score = 1

\* C7  Configuration error: with a configuration the engine rejects, the game
\* instance is never constructed (every reset() raises at its construction),
\* so no tick ever runs: every step() raises.
C7_ConfigRejected ==
    ~ValidConfig(env._screen_size, env._pipe_gap) =>
        /\ env._game = None
        /\ ret.call \in {"reset", "step"} => ret.raised

\* A step() attempted, and refused, after a reset() on a rejected configuration.
C7_Witness ==
    /\ ~ValidConfig(env._screen_size, env._pipe_gap)
    /\ env.np_random # NoRng
    /\ ret.call = "step" /\ ret.raised

\* C8  Reset starts a fresh episode: a reset() on an accepted configuration,
\* in any state, leaves a newly allocated game that is ALIVE with score 0, no
\* tick made, the player at its start and the one freshly spawned pair, and
\* returns info["score"] = 0 when it returns; and a DEAD game is replaced or
\* changed by nothing but reset().
C8_ResetFresh ==
    /\ [][(ret'.call = "reset" /\ ValidConfig(env._screen_size, env._pipe_gap)) =>
            LET g == env'._game
            IN  /\ g # None
                /\ env._game # None => g.id # env._game.id
                /\ g.alive /\ g.score = 0 /\ g.ticks = 0
                /\ g.player_y = g.screen_height \div 3 /\ g.player_vel_y = 0
                /\ Len(g.upper_pipes) = 1
                /\ g.upper_pipes[1].x = g.screen_width
                /\ g.upper_pipes[1].passed = 0
                /\ ~ret'.raised => ret'.info.score = 0]_vars
    /\ [][(Dead(env) /\ env'._game # env._game) => ret'.call = "reset"]_vars

\* A reset() that returned and replaced the game of an earlier episode: the new
\* game is the second object allocated, its score 0 reported.
C8_Witness ==
    /\ ret.call = "reset" /\ ~ret.raised
    /\ env._game.id = 2 /\ env._game.score = 0
    /\ lastScore = 0 /\ ~reported

\* C9  Rendering is read-only: render() and set_color() leave the game and the
\* random source unchanged, and a step() with a renderer attached leaves the
\* game exactly as the engine's tick for some action leaves it.
C9_RenderReadOnly ==
    [][/\ ret'.call \in {"render", "set_color"} =>
             /\ env'._game = env._game
             /\ env'.np_random = env.np_random
       /\ (IsStep /\ env._game # None) =>
             \E action \in Actions :
                 env'._game = update_state(env._game, action, env.np_random).game
       /\ (ret'.call = "reset" /\ env'._game # None) =>
             /\ env'._game.player_rot = PlayerRot(0)
             /\ env'._game.score = 0
             /\ env'._game.alive]_vars

\* A frame drawn to the window during an episode, the player rising.
C9_Witness ==
    /\ ret.call = "render" /\ ~ret.raised
    /\ env._game # None /\ env._game.player_vel_y < 0
    /\ env._renderer # None /\ env._renderer.display = "window"
    /\ env._renderer.surface = "drawn"

\* C10  Cosmetic configuration does not influence the simulation: two instances
\* that differ only in colours, background, audio and render mode, reset with
\* the same seed and given the same actions, have the same raw reading, reward,
\* terminated flag and score at every call.
C10_CosmeticsIgnored ==
    /\ ret.raised = ret2.raised
    /\ ret.reward = ret2.reward
    /\ ret.terminated = ret2.terminated
    /\ ret.info = ret2.info
    /\ (env._game = None) = (env2._game = None)
    /\ env._game # None =>
          /\ RawReading(env) = RawReading(env2)
          /\ env._game.score = env2._game.score

\* The second instance differs in every cosmetic argument and renders to the
\* window; both have passed a pair.
C10_Witness ==
    /\ env2.render_mode = "human" /\ env2._audio_on
    /\ env2._bird_color # env._bird_color
    /\ env2._pipe_color # env._pipe_color
    /\ env2._bg_type # env._bg_type
    /\ ret2.call = "step" /\ ~ret2.raised /\ ret2.info.score = 1

\* Ticks a player that never flaps needs from its start to the ground.
FallTicks(g) == g.ground.y - PLAYER_HEIGHT - g.screen_height \div 3

C12_StepReport ==
    [][(IsStep /\ ~ret'.raised) =>
         /\ \E action \in Actions :
               \E t \in {update_state(env._game, action, env.np_random)} :
                  /\ t.ok
                  /\ env'._game = t.game
                  /\ ret'.terminated = ~t.alive
         /\ ret'.terminated = ~env'._game.alive
         /\ ret'.truncated = FALSE
         /\ ret'.info = [score |-> env'._game.score]]_vars

\* A step() that ended an episode in which a pair had been passed.
C12_Witness ==
    /\ ret.call = "step" /\ ~ret.raised
    /\ ret.terminated /\ ~ret.truncated
    /\ Dead(env) /\ env._game.score >= 1
    /\ ret.info.score = env._game.score

\* C13  Normalization is applied outside the core, consistently and exactly
\* once: of two instances that differ in normalize_obs only and are driven
\* alike, the one with normalize_obs returns from reset() and from step() the
\* linear rescale of the raw reading, the other returns the raw reading
\* unchanged, and reward, terminated, score, the game and the random source
\* are the same in both.
C13_NormalizeOutside ==
    /\ ret.call = ret2.call
    /\ ret.raised = ret2.raised
    /\ env._game = env2._game
    /\ env.np_random = env2.np_random
    /\ (ret.call \in {"reset", "step"} /\ ~ret.raised) =>
          /\ ret.reward = ret2.reward
          /\ ret.terminated = ret2.terminated
          /\ ret.truncated = ret2.truncated
          /\ ret.info = ret2.info
          /\ ret2.obs = RawReading(env2)
          /\ ret.obs = _normalize_state(RawReading(env))
          /\ \A r \in DOMAIN ret.obs :
                ret.obs[r] = RatSub(RatDiv(RatMul(ret2.obs[r], RatInt(2)),
                                           RatInt(LIDAR_MAX_DISTANCE)), RatInt(1))

\* Both kinds of reading seen at once, from reset() and, in another state, from
\* a step() that earned the pass reward: the normalized one differs from the raw.
C13_Witness ==
    /\ ret.call = "step" /\ ~ret.raised /\ ret.reward = 10
    /\ ret2.obs = RawReading(env2)
    /\ ret.obs # ret2.obs
    /\ \E r \in DOMAIN ret.obs : ret2.obs[r] = RatInt(LIDAR_MAX_DISTANCE) /\ ret.obs[r] = RatInt(1)

\* C14  A step() on an environment that has no game (reset() never succeeded)
\* raises and leaves the environment as it was, still without a game and with
\* its renderer untouched; a game only comes into being in a reset(), and a
\* step() only returns when there was a game.
C14_StepNeedsReset ==
    /\ [][(IsStep /\ env._game = None) =>
            /\ ret'.raised
            /\ env' = env
            /\ env'._game = None
            /\ env'._renderer = env._renderer]_vars
    /\ [][(IsStep /\ ~ret'.raised) => env._game # None]_vars
    /\ [][(env._game = None /\ env'._game # None) =>
            ret'.call = "reset"]_vars

\* A refused step() on an environment that has a renderer but never had a game.
C14_Witness ==
    /\ ret.call = "step" /\ ret.raised
    /\ env._game = None
    /\ env._renderer # None /\ env._renderer.game = 0

\* C15  Whenever the environment has both a renderer and a game, the game the
\* renderer refers to is the environment's current game, so a frame drawn after
\* a reset() is never one of an earlier episode's game.
C15_RendererFollowsGame ==
    /\ (env._renderer # None /\ env._game # None) =>
          env._renderer.game = env._game.id
    /\ (env._renderer # None /\ env._game = None) => env._renderer.game = 0
    /\ (ret.call = "render" /\ ~ret.raised) =>
          /\ env._game # None
          /\ env._renderer.game = env._game.id
          /\ env._renderer.surface = "drawn"

\* A frame drawn in an episode that replaced an earlier one, after a tick.
C15_Witness ==
    /\ ret.call = "render" /\ ~ret.raised
    /\ env._game # None /\ env._game.id = 2 /\ env._game.ticks >= 1
    /\ env._renderer # None /\ env._renderer.game = 2

\* C16  close() is idempotent: the first close() of an environment that has a
\* renderer shuts the display down once and drops the renderer, any further
\* close() shuts nothing down and leaves the environment as it was, and no
\* close() touches the game (score and alive flag included) or the random source.
C16_CloseIdempotent ==
    /\ [][ret'.call = "close" =>
            /\ ~ret'.raised
            /\ env'._game = env._game
            /\ env'.np_random = env.np_random
            /\ env'._renderer = None
            /\ env' = [env EXCEPT !._renderer = None]
            /\ env._renderer # None => quits' = quits + 1
            /\ env._renderer = None => (quits' = quits /\ env' = env)]_vars
    /\ [](quits <= 1)
    /\ [](quits = 1 => env._renderer = None)

\* A closed environment whose display was shut down once, its running episode
\* with a passed pair still in place.
C16_Witness ==
    /\ ret.call = "close" /\ quits = 1
    /\ env._renderer = None
    /\ Alive(env) /\ env._game.score >= 1

\* The game without its object identity.
Episode(e) == [e._game EXCEPT !.id = 0]

\* C17  An episode started by reset(seed) depends on the seed, the
\* configuration and its own actions only: an instance that has played earlier
\* episodes, seeded or not, and a fresh instance, reset with the same seed and
\* given the same actions, give back the same reading, reward and terminated
\* flag at every call and hold the same game and random source.
C17_PastIgnored ==
    env2._game # None =>
        /\ env._game # None
        /\ Episode(env) = Episode(env2)
        /\ env.np_random = env2.np_random
        /\ ret.call = ret2.call
        /\ ret.raised = ret2.raised
        /\ ret.obs = ret2.obs
        /\ ret.reward = ret2.reward
        /\ ret.terminated = ret2.terminated
        /\ ret.info = ret2.info
        /\ RawReading(env) = RawReading(env2)

\* A pass rewarded alike in the first episode of one instance and in a later
\* episode of the other.
C17_Witness ==
    /\ env2._game # None /\ env._game # None
    /\ env._game.id # env2._game.id
    /\ ret.call = "step" /\ ~ret.raised /\ ret.reward = 10
    /\ ret2.call = "step" /\ ret2.reward = 10
    /\ Len(env._game.upper_pipes) >= 2

====
